---- MODULE Spec2Model ----
(***************************************************************************)
(* mirrored_cache_t (src/include/buffer_cache/mirrored.hpp): the buffer    *)
(* cache that composes a serializer, a buffer allocator, a page map, a     *)
(* page replacement policy and a writeback policy behind the transaction   *)
(* API begin_transaction / end_transaction / allocate / acquire / release  *)
(* and the completion funnel aio_complete.                                 *)
(*                                                                         *)
(* The five policies are template parameters (config_t::...) whose code is *)
(* not part of mirrored.hpp; they are modelled from their contracts in     *)
(* spec.md sections 4.2-4.5 and 6.  Everything the cache itself does is    *)
(* translated from mirrored.hpp.                                           *)
(***************************************************************************)
EXTENDS Integers, FiniteSets

(***************************************************************************)
(* Bounds of the model.                                                    *)
(***************************************************************************)
\* block ids 1..NumDisk exist on disk before the cache starts
NumDisk == 1
\* gen_block_id hands out NumDisk+1 .. MaxBlockId
MaxBlockId == 2
\* size of the buffer allocator's pool
MaxBufs == 2
\* number of aio_context objects that can be live at once
MaxCtx == 2
\* number of dirty blocks writeback batches before it must flush
MaxDirty == 1
\* max_size of the constructor, in blocks
MaxSize == 1
\* completions a faulty substrate delivers a second time in one run
MaxDouble == 1
\* completions followed after a context was deleted twice
MaxAfter == 2

NULL == 0
EventQueues == {1, 2}
Home == CHOOSE q \in EventQueues : \A r \in EventQueues : q <= r
States == {1, 2}
Blocks == 1..MaxBlockId
\* Buffer addresses.  The allocator may return any address that is not live;
\* the model names an address after the block id it is allocated for and a
\* serial number, so that runs differing only in the addresses malloc happened
\* to return are one run.
Addr(block_id, k) == block_id * (MaxBufs + 1) + k
Buffers == {Addr(b, k) : b \in Blocks, k \in 1..MaxBufs}
\* what a byte of a buffer holds: zero or not
Bytes == 0..1

\* the build modelled is the debug build: NDEBUG is not defined, so assert()
\* is checked and aio_context has its event_queue member
NDEBUG == FALSE

VARIABLES
    page_map,       \* page_map_t: block id -> resident buffer, or NULL
    pins,           \* page_repl_t: pin count per block id
    next_block_id,  \* serializer_t: the next id gen_block_id returns
    disk,           \* serializer_t: the block ids that have been written to disk
    owner,          \* buffer_alloc_t: buffer -> block id it was malloc'ed for, NULL if free
    aio,            \* aio_context objects of the reads and writes in flight
    dirty,          \* writeback_t: blocks marked dirty, not yet written
    held,           \* buffers handed to callers and not yet released
    failed,         \* an assert() has failed: the process has aborted
    live,           \* aio_context objects created by new and not yet deleted
    heap,           \* buffer_alloc_t: what the memory at each address holds when malloc hands it out
    cow,            \* serializer_t: TRUE when a write goes to a new block id (copy-on-write)
    stale           \* substrate: context pointers it kept after their completion, and how many it delivered again

vars == <<page_map, pins, next_block_id, disk, owner, aio, dirty, held, failed,
          live, heap, cow, stale>>

cache == <<page_map, pins, next_block_id, disk, owner, aio, dirty, live>>

\* the state of the collaborators that no operation of the cache writes
env == <<heap, cow, stale>>

(***************************************************************************)
(* The policies (contracts of spec.md 4.2-4.5, 6).                         *)
(***************************************************************************)
find(block_id) == page_map[block_id]

set(block_id, block) == [page_map EXCEPT ![block_id] = block]

pin(block_id) == [pins EXCEPT ![block_id] = @ + 1]

unpin(block_id) == [pins EXCEPT ![block_id] = @ - 1]

gen_block_id == next_block_id

LiveBuffers == {buf \in Buffers : owner[buf] # NULL}

\* the pool holds MaxBufs buffers
FreeBuffers == IF Cardinality(LiveBuffers) < MaxBufs THEN Buffers \ LiveBuffers ELSE {}

\* malloc(block_size), for a buffer that is to hold block_id
malloc(block_id) ==
    LET free == FreeBuffers
    IN Addr(block_id, CHOOSE k \in 1..MaxBufs :
                          /\ Addr(block_id, k) \in free
                          /\ \A j \in 1..(k - 1) : Addr(block_id, j) \notin free)

\* do_read(tm, block_id, buf, ctx): the read is in flight, keyed by ctx
do_read(tm, block_id, buf, ctx) ==
    aio \cup {[ctx EXCEPT !.buf = buf, !.written = FALSE]}

\* mark_dirty records the block as needing flush ...
mark_dirty(tm, block_id, block, state) ==
    dirty \cup {[block_id |-> block_id, block |-> block, state |-> state, tm |-> tm]}

\* ... and returns the id the caller uses henceforth: the same id for an
\* in-place serializer, a fresh one for a copy-on-write serializer
mark_dirty_id(tm, block_id, block, state) ==
    IF cow THEN gen_block_id ELSE block_id

\* the serializer's next id after mark_dirty
mark_dirty_next_id == IF cow THEN next_block_id + 1 ELSE next_block_id

\* a finished write leaves the block on disk
written_to_disk(block_id) == disk \cup {block_id}

DirtyIds == {d.block_id : d \in dirty}

Resident == {b \in Blocks : page_map[b] # NULL}

\* the completion path hands the buffer of a finished read to the caller state
deliver(ctx, block) ==
    held \cup {[state |-> ctx.user_state, block_id |-> ctx.block_id, block |-> block]}

(***************************************************************************)
(* mirrored_cache_t.                                                       *)
(***************************************************************************)
\* assert(e): checked in a debug build, compiled out under NDEBUG
assert(e) == NDEBUG \/ e

\* mutant: the assertion is left out
same_context_unchecked(tm, cur) == TRUE

\* assert(tm == get_cpu_context()->event_queue)
same_context(tm, cur) == tm = cur

\* assert(ctx->event_queue = get_cpu_context()->event_queue): an assignment,
\* whose value is the current event queue pointer
ctx_context(ctx_event_queue, cur) == cur # NULL

\* new aio_context_t() with its fields set, lines 102-107
new_aio_context(tm, block_id, state) ==
    [user_state |-> state, block_id |-> block_id,
     event_queue |-> IF NDEBUG THEN NULL ELSE tm, buf |-> NULL, written |-> FALSE]

\* a failed assert() aborts the process before anything else is done
Abort ==
    /\ failed' = TRUE
    /\ UNCHANGED <<cache, held>>

\* begin_transaction returns the current event queue
begin_transaction_ret(cur) == cur

begin_transaction(cur) ==
    /\ ~failed
    /\ begin_transaction_ret(cur) \in EventQueues
    /\ UNCHANGED vars

end_transaction(transaction, cur) ==
    /\ ~failed
    /\ IF ~assert(same_context(transaction, cur)) THEN Abort
       ELSE UNCHANGED vars

\* mutant: allocate does not pin
allocate_pins_none(block_id) == pins

\* pin count after allocate
allocate_pins(block_id) == pin(block_id)

\* the block id allocate stores in *block_id, line 83
allocate_block_id == gen_block_id

\* the buffer allocate returns, lines 84 and 88
allocate_ret(block_id) == malloc(block_id)

\* what the returned buffer holds: malloc's memory as it is, allocate writes
\* nothing to it
allocate_contents(block) == heap[block]

allocate(tm, cur, state) ==
    /\ ~failed
    /\ next_block_id <= MaxBlockId
    /\ FreeBuffers # {}
    /\ IF ~assert(same_context(tm, cur)) THEN Abort
       ELSE LET block_id == gen_block_id
                block == malloc(block_id)
            IN /\ next_block_id' = next_block_id + 1
               /\ owner' = [owner EXCEPT ![block] = block_id]
               /\ page_map' = set(block_id, block)
               /\ pins' = allocate_pins(block_id)
               /\ held' = held \cup
                      {[state |-> state, block_id |-> block_id, block |-> block]}
               /\ UNCHANGED <<disk, aio, dirty, failed, live>>

\* mutant: a hit does not pin the block
acquire_pins_none(block_id, block) == pins

\* pin count after acquire found `block` in the page map
acquire_pins(block_id, block) ==
    IF block = NULL THEN pins ELSE pin(block_id)

\* mutant: a miss issues no read
acquire_aio_lost(tm, block_id, state, block) == aio

\* reads in flight after acquire found `block` in the page map
acquire_aio(tm, block_id, state, block) ==
    IF block = NULL
    THEN do_read(tm, block_id, malloc(block_id), new_aio_context(tm, block_id, state))
    ELSE aio

\* mutant: a context is created on a hit too
acquire_live_always(tm, block_id, state, block) ==
    live \cup {[new_aio_context(tm, block_id, state) EXCEPT !.buf = block]}

\* live contexts after acquire found `block` in the page map: new
\* aio_context_t() on a miss, line 102
acquire_live(tm, block_id, state, block) ==
    IF block = NULL
    THEN live \cup {[new_aio_context(tm, block_id, state) EXCEPT !.buf = malloc(block_id)]}
    ELSE live

\* the caller `state` neither holds block_id nor waits for it
Idle(state, block_id) ==
    /\ \A h \in held : ~(h.state = state /\ h.block_id = block_id)
    /\ \A c \in aio : ~(~c.written /\ c.user_state = state /\ c.block_id = block_id)

acquire(tm, cur, block_id, state) ==
    /\ ~failed
    /\ block_id < next_block_id
    /\ Idle(state, block_id)
    /\ find(block_id) = NULL => (FreeBuffers # {} /\ Cardinality(aio) < MaxCtx)
    /\ IF ~assert(same_context(tm, cur)) THEN Abort
       ELSE LET block == find(block_id) IN
            /\ owner' = IF block = NULL THEN [owner EXCEPT ![malloc(block_id)] = block_id]
                        ELSE owner
            /\ aio' = acquire_aio(tm, block_id, state, block)
            /\ live' = acquire_live(tm, block_id, state, block)
            /\ pins' = acquire_pins(block_id, block)
            /\ held' = IF block = NULL THEN held
                       ELSE held \cup
                         {[state |-> state, block_id |-> block_id, block |-> block]}
            /\ UNCHANGED <<page_map, next_block_id, disk, dirty, failed>>

\* mutant: release never unpins
release_pins_never_unpin(block_id, dirty_flag) == pins

\* mutant: release unpins a dirty block too
release_pins_always_unpin(block_id, dirty_flag) == unpin(block_id)

\* pin count after release
release_pins(block_id, dirty_flag) ==
    IF dirty_flag THEN pins ELSE unpin(block_id)

\* mutant: release hands every block to writeback
release_dirty_always(tm, block_id, block, dirty_flag, state) ==
    mark_dirty(tm, block_id, block, state)

\* writeback's dirty blocks after release
release_dirty(tm, block_id, block, dirty_flag, state) ==
    IF dirty_flag THEN mark_dirty(tm, block_id, block, state) ELSE dirty

\* the block id release returns
release_id(tm, block_id, block, dirty_flag, state) ==
    IF dirty_flag THEN mark_dirty_id(tm, block_id, block, state) ELSE block_id

release(tm, cur, h, dirty_flag) ==
    /\ ~failed
    /\ h \in held
    /\ dirty_flag => /\ Cardinality(dirty) < MaxDirty
                     /\ \A d \in dirty : ~(d.block_id = h.block_id /\ d.state = h.state)
                     /\ cow => next_block_id <= MaxBlockId
    /\ IF ~assert(same_context(tm, cur)) THEN Abort
       ELSE /\ dirty' = release_dirty(tm, h.block_id, h.block, dirty_flag, h.state)
            /\ pins' = release_pins(h.block_id, dirty_flag)
            /\ held' = held \ {h}
            /\ next_block_id' = IF dirty_flag THEN mark_dirty_next_id ELSE next_block_id
            /\ UNCHANGED <<page_map, disk, owner, aio, failed, live>>

\* mutant: a finished read does not pin
aio_complete_pins_no_pin(block_id, written) ==
    IF written THEN unpin(block_id) ELSE pins

\* mutant: a finished write does not unpin
aio_complete_pins_no_unpin(block_id, written) ==
    IF written THEN pins ELSE pin(block_id)

\* pin count after aio_complete
aio_complete_pins(block_id, written) ==
    IF written THEN unpin(block_id) ELSE pin(block_id)

\* mutant: a finished read registers its buffer and drops every other entry
aio_complete_page_map_reset(block_id, block, written) ==
    IF written THEN page_map
    ELSE [b \in Blocks |-> IF b = block_id THEN block ELSE NULL]

\* mutant: a finished read is not registered in the page map
aio_complete_page_map_skip(block_id, block, written) == page_map

\* mutant: a finished write drops the block from the page map
aio_complete_page_map_drop(block_id, block, written) ==
    IF written THEN set(block_id, NULL) ELSE set(block_id, block)

\* page map after aio_complete
aio_complete_page_map(block_id, block, written) ==
    IF written THEN page_map ELSE set(block_id, block)

\* mutant: the context is never deleted
aio_complete_live_leak(ctx) == live

\* live contexts after aio_complete: delete ctx, line 138
aio_complete_live(ctx) == live \ {ctx}

aio_complete(ctx, cur) ==
    /\ ~failed
    /\ ctx \in aio
    /\ IF ~assert(ctx_context(ctx.event_queue, cur)) THEN Abort
       ELSE /\ aio' = aio \ {ctx}
            /\ live' = aio_complete_live(ctx)
            /\ pins' = aio_complete_pins(ctx.block_id, ctx.written)
            /\ page_map' = aio_complete_page_map(ctx.block_id, ctx.buf, ctx.written)
            /\ held' = IF ctx.written THEN held ELSE deliver(ctx, ctx.buf)
            /\ disk' = IF ctx.written THEN written_to_disk(ctx.block_id) ELSE disk
            /\ UNCHANGED <<next_block_id, owner, dirty, failed>>

\* a context was deleted twice: its address is on the free list of the
\* context allocator more than once, and operator new hands it to more than
\* one context
Corrupted == stale.delivered > 0

\* what a delete of line 138 that is undefined leaves live.  On an intact
\* heap the freed memory was not handed out again (nothing else is
\* destroyed), or operator new gave it to one context created since, and the
\* delete destroys that live context while its I/O is still in flight.  On a
\* corrupted heap live contexts share addresses, and the delete destroys
\* every context at the address.
aio_complete_again_live ==
    IF Corrupted THEN {live \ gone : gone \in SUBSET live}
    ELSE {live} \cup {live \ {c} : c \in live}

\* aio_complete on a context that was deleted by an earlier aio_complete:
\* line 134 writes to freed memory, line 137 reads ctx->block_id from it and
\* line 138 deletes ctx a second time.  The allocator may catch the second
\* delete and abort; otherwise the body runs with whatever block id the
\* memory now holds, and the delete frees whatever object lives there.
aio_complete_again(ctx, cur) ==
    /\ ~failed
    /\ ctx \in stale.kept
    /\ stale' = [stale EXCEPT !.kept = @ \ {ctx}, !.delivered = @ + 1]
    /\ UNCHANGED <<heap, cow>>
    /\ IF ~assert(ctx_context(ctx.event_queue, cur)) THEN Abort
       ELSE \/ Abort
            \/ \E block_id \in Blocks :
                   /\ live' \in aio_complete_again_live
                   /\ pins' = aio_complete_pins(block_id, ctx.written)
                   /\ page_map' = aio_complete_page_map(block_id, ctx.buf, ctx.written)
                   /\ UNCHANGED <<next_block_id, disk, owner, aio, dirty, held, failed>>

\* aio_complete, delivered once, on a corrupted heap.  The context may have
\* been destroyed by an earlier delete, or share its address with another
\* context: line 137 reads the block id of whichever context wrote the
\* memory last, and line 138 aborts in the allocator or destroys every
\* context at the address.  The run is followed for MaxAfter such
\* completions; no completion is delivered after that.
aio_complete_corrupted(ctx, cur) ==
    /\ ~failed
    /\ ctx \in aio
    /\ Corrupted
    /\ stale.after < MaxAfter
    /\ stale' = [stale EXCEPT !.after = @ + 1]
    /\ UNCHANGED <<heap, cow>>
    /\ IF ~assert(ctx_context(ctx.event_queue, cur)) THEN Abort
       ELSE \/ Abort
            \/ \E block_id \in Blocks, left \in aio_complete_again_live :
                   /\ aio' = aio \ {ctx}
                   /\ live' = left \ {ctx}
                   /\ pins' = aio_complete_pins(block_id, ctx.written)
                   /\ page_map' = aio_complete_page_map(block_id, ctx.buf, ctx.written)
                   /\ held' = IF ctx.written THEN held ELSE deliver(ctx, ctx.buf)
                   /\ disk' = IF ctx.written THEN written_to_disk(ctx.block_id) ELSE disk
                   /\ UNCHANGED <<next_block_id, owner, dirty, failed>>

\* acquire of a block that is not resident, on a corrupted heap: the buffer
\* of line 101 is allocated, then operator new of line 102 may find the
\* damage to its free list and abort
acquire_corrupted(tm, cur, block_id, state) ==
    /\ ~failed
    /\ Corrupted
    /\ block_id < next_block_id
    /\ Idle(state, block_id)
    /\ assert(same_context(tm, cur))
    /\ find(block_id) = NULL
    /\ FreeBuffers # {}
    /\ Cardinality(aio) < MaxCtx
    /\ owner' = [owner EXCEPT ![malloc(block_id)] = block_id]
    /\ failed' = TRUE
    /\ UNCHANGED <<page_map, pins, next_block_id, disk, aio, dirty, held, live>>
    /\ UNCHANGED env

(***************************************************************************)
(* Steps the policies take on their own schedule.                          *)
(***************************************************************************)
\* writeback issues the write of a dirty block, tagged with a context; one
\* write per block is in flight at a time
writeback_flush(d) ==
    /\ ~failed
    /\ d \in dirty
    /\ Cardinality(aio) < MaxCtx
    /\ \A c \in aio : ~(c.written /\ c.block_id = d.block_id)
    /\ aio' = aio \cup {[new_aio_context(d.tm, d.block_id, d.state)
                           EXCEPT !.buf = d.block, !.written = TRUE]}
    /\ live' = live \cup {[new_aio_context(d.tm, d.block_id, d.state)
                             EXCEPT !.buf = d.block, !.written = TRUE]}
    /\ dirty' = dirty \ {d}
    /\ UNCHANGED <<page_map, pins, next_block_id, disk, owner, held, failed>>

\* page replacement evicts an unpinned, non-dirty victim when over max_size
evict(block_id) ==
    /\ ~failed
    /\ Cardinality(Resident) > MaxSize
    /\ page_map[block_id] # NULL
    /\ pins[block_id] = 0
    /\ block_id \notin DirtyIds
    /\ owner' = [owner EXCEPT ![page_map[block_id]] = NULL]
    /\ page_map' = [page_map EXCEPT ![block_id] = NULL]
    /\ UNCHANGED <<pins, next_block_id, disk, aio, dirty, held, failed, live>>

\* the substrate delivers a completion and keeps the context pointer
aio_complete_kept(ctx, cur) ==
    /\ aio_complete(ctx, cur)
    /\ ~Corrupted
    /\ Cardinality(stale.kept) + stale.delivered < MaxDouble
    /\ stale' = [stale EXCEPT !.kept = @ \cup {ctx}]
    /\ UNCHANGED <<heap, cow>>

InitCache ==
    /\ page_map = [b \in Blocks |-> NULL]
    /\ pins = [b \in Blocks |-> 0]
    /\ next_block_id = NumDisk + 1
    /\ disk = 1..NumDisk
    /\ owner = [b \in Buffers |-> NULL]
    /\ aio = {}
    /\ dirty = {}
    /\ held = {}
    /\ failed = FALSE
    /\ live = {}
    /\ stale = [kept |-> {}, delivered |-> 0, after |-> 0]

\* an in-place serializer over an allocator whose memory is zero-filled
Init ==
    /\ InitCache
    /\ heap = [buf \in Buffers |-> 0]
    /\ cow = FALSE

\* the allocator's memory holds whatever was there before
AllocInit ==
    /\ InitCache
    /\ heap \in [Buffers -> Bytes]
    /\ cow = FALSE

\* a copy-on-write serializer
CowInit ==
    /\ InitCache
    /\ heap = [buf \in Buffers |-> 0]
    /\ cow = TRUE

Next ==
    \/ begin_transaction(Home)
    \/ \E tm \in {Home}, cur \in EventQueues :
           end_transaction(tm, cur) /\ UNCHANGED env
    \/ \E tm \in {Home}, cur \in EventQueues, s \in States :
           allocate(tm, cur, s) /\ UNCHANGED env
    \/ \E tm \in {Home}, cur \in EventQueues, b \in Blocks, s \in States :
           acquire(tm, cur, b, s) /\ UNCHANGED env
    \/ \E tm \in {Home}, cur \in EventQueues, h \in held, d \in BOOLEAN :
           release(tm, cur, h, d) /\ UNCHANGED env
    \/ \E ctx \in aio, cur \in EventQueues : aio_complete(ctx, cur) /\ UNCHANGED env
    \/ \E d \in dirty : writeback_flush(d) /\ UNCHANGED env
    \/ \E b \in Blocks : evict(b) /\ UNCHANGED env

Spec == Init /\ [][Next]_vars

\* the serializer eventually completes every read it was given
CompleteRead(state, block_id) ==
    \E ctx \in aio :
        /\ ~ctx.written
        /\ ctx.user_state = state
        /\ ctx.block_id = block_id
        /\ aio_complete(ctx, Home)
        /\ UNCHANGED env

\* the runs in which every call and every completion arrives on the context of
\* its transaction, as section 5 of spec.md requires of callers and substrate
HomeNext ==
    \/ begin_transaction(Home)
    \/ end_transaction(Home, Home)
    \/ \E s \in States : allocate(Home, Home, s) /\ UNCHANGED env
    \/ \E b \in Blocks, s \in States : acquire(Home, Home, b, s) /\ UNCHANGED env
    \/ \E h \in held, d \in BOOLEAN : release(Home, Home, h, d) /\ UNCHANGED env
    \/ \E ctx \in aio : aio_complete(ctx, Home) /\ UNCHANGED env
    \/ \E d \in dirty : writeback_flush(d) /\ UNCHANGED env
    \/ \E b \in Blocks : evict(b) /\ UNCHANGED env

FairSpec ==
    /\ Init
    /\ [][HomeNext]_vars
    /\ \A s \in States, b \in Blocks : WF_vars(CompleteRead(s, b))

\* allocate over memory that was used before
AllocSpec == AllocInit /\ [][HomeNext]_vars

\* the cache over a copy-on-write serializer
CowSpec == CowInit /\ [][HomeNext]_vars

\* a substrate that may deliver a completion a second time; a completion that
\* is delivered once runs as aio_complete while the heap is intact
DoubleNext ==
    \/ begin_transaction(Home)
    \/ end_transaction(Home, Home)
    \/ \E s \in States : allocate(Home, Home, s) /\ UNCHANGED env
    \/ \E b \in Blocks, s \in States : acquire(Home, Home, b, s) /\ UNCHANGED env
    \/ \E b \in Blocks, s \in States : acquire_corrupted(Home, Home, b, s)
    \/ \E h \in held, d \in BOOLEAN : release(Home, Home, h, d) /\ UNCHANGED env
    \/ \E ctx \in aio : ~Corrupted /\ aio_complete(ctx, Home) /\ UNCHANGED env
    \/ \E ctx \in aio : aio_complete_kept(ctx, Home)
    \/ \E ctx \in stale.kept : aio_complete_again(ctx, Home)
    \/ \E ctx \in aio : aio_complete_corrupted(ctx, Home)
    \/ \E d \in dirty : writeback_flush(d) /\ UNCHANGED env
    \/ \E b \in Blocks : evict(b) /\ UNCHANGED env

DoubleSpec == Init /\ [][DoubleNext]_vars

(***************************************************************************)
(* Properties.                                                             *)
(***************************************************************************)
HeldFor(b) == {h \in held : h.block_id = b}

ReadsFor(b) == {c \in aio : ~c.written /\ c.block_id = b}

WritesFor(b) == {c \in aio : c.written /\ c.block_id = b}

DirtyFor(b) == {d \in dirty : d.block_id = b}

Quiescent == held = {} /\ aio = {} /\ dirty = {}

\* C1: pin/unpin balance.  Whenever no caller holds a buffer, no read or
\* write is in flight and no dirty block waits for its write, the pin count
\* of every block id is zero.
C1_PinBalance ==
    Quiescent => \A b \in Blocks : pins[b] = 0

\* a quiescent state after a block was read in and another allocated
C1_Witness ==
    /\ Quiescent
    /\ next_block_id > NumDisk + 1
    /\ \E b \in 1..NumDisk : page_map[b] # NULL
    /\ disk # 1..NumDisk

\* C2 (as claimed): at most one read is in flight per block id, and once all
\* I/O has completed every buffer acquire allocated is the page map's buffer
\* for its block id (or has been freed).
C2_NoDuplicateRead ==
    /\ \A b \in Blocks : Cardinality(ReadsFor(b)) <= 1
    /\ (aio = {} /\ dirty = {}) =>
           \A buf \in Buffers : owner[buf] # NULL => page_map[owner[buf]] = buf

\* the buffers that are live for block id b: registered in the page map, the
\* destination of a read in flight, or handed to a caller and not yet released
LiveFor(b) ==
    ({page_map[b]} \ {NULL})
        \cup {c.buf : c \in ReadsFor(b)}
        \cup {h.block : h \in HeldFor(b)}

\* C3 (as claimed): uniqueness.  In every reachable state there is at most
\* one live buffer per block id.
C3_Uniqueness ==
    \A b \in Blocks : Cardinality(LiveFor(b)) <= 1

\* the buffer acquire returns, line 114
acquire_ret(block_id) == find(block_id)

\* C4: miss-then-fill.  An acquire of a block id absent from the page map
\* returns no buffer and adds exactly one read, for that block id and caller
\* state, to the I/O in flight, changing neither page map nor pin counts;
\* the completion of a read registers the read's buffer under the context's
\* block id, raises that block's pin count by exactly one and changes no
\* other page map entry or pin count.
C4_MissThenFill ==
    [][ /\ \A q \in EventQueues, b \in Blocks, s \in States :
             (acquire(q, q, b, s) /\ find(b) = NULL) =>
                 /\ acquire_ret(b) = NULL
                 /\ aio \subseteq aio'
                 /\ Cardinality(aio' \ aio) = 1
                 /\ \A c \in aio' \ aio :
                        ~c.written /\ c.block_id = b /\ c.user_state = s
                 /\ page_map' = page_map
                 /\ pins' = pins
        /\ \A ctx \in aio, cur \in EventQueues :
             (aio_complete(ctx, cur) /\ ~ctx.written /\ ~failed') =>
                 /\ page_map'[ctx.block_id] = ctx.buf
                 /\ ctx.buf # NULL
                 /\ pins'[ctx.block_id] = pins[ctx.block_id] + 1
                 /\ \A b \in Blocks \ {ctx.block_id} :
                        page_map'[b] = page_map[b] /\ pins'[b] = pins[b]
      ]_vars

\* a block that was on disk is resident and pinned once, no read in flight
C4_Witness ==
    \E b \in 1..NumDisk :
        /\ page_map[b] # NULL
        /\ pins[b] = 1
        /\ ReadsFor(b) = {}
        /\ Cardinality(HeldFor(b)) = 1

\* caller `s` waits for the read of block b that its acquire issued
Pending(s, b) == \E c \in ReadsFor(b) : c.user_state = s

\* caller `s` has been handed the resident, pinned buffer of block b
Delivered(s, b) ==
    \E h \in HeldFor(b) :
        h.state = s /\ page_map[b] = h.block /\ h.block # NULL /\ pins[b] > 0

\* C5: every acquire that misses is eventually followed by the delivery of
\* the resident, pinned buffer to the caller state passed to that acquire
\* (on the context of its transaction), given that the serializer eventually completes the read.
C5_PendingDelivered ==
    \A s \in States, b \in Blocks : Pending(s, b) ~> Delivered(s, b)

\* a caller holds the buffer of a block that had to be read from disk
C5_Witness ==
    \E s \in States, b \in 1..NumDisk :
        Delivered(s, b) /\ ~Pending(s, b)

\* C6 (as claimed): in a debug build aio_complete on an execution context
\* other than the one recorded in the aio_context fails its assertion.
C6_CompletionContextAsserted ==
    [][ \A ctx \in aio, cur \in EventQueues :
            (~NDEBUG /\ ctx.event_queue # cur /\ aio_complete(ctx, cur)) => failed'
      ]_vars

\* C7: in a debug build end_transaction, allocate, acquire and release each
\* fail their assertion when the transaction handle differs from the current
\* execution context, and leave the cache state as it was.
C7_TransactionContextAsserted ==
    [][ \A tm, cur \in EventQueues :
            ( /\ ~NDEBUG
              /\ tm # cur
              /\ \/ end_transaction(tm, cur)
                 \/ \E s \in States : allocate(tm, cur, s)
                 \/ \E b \in Blocks, s \in States : acquire(tm, cur, b, s)
                 \/ \E h \in held, d \in BOOLEAN : release(tm, cur, h, d) )
            => (failed' /\ UNCHANGED <<cache, held>>)
      ]_vars

\* an assertion has failed while I/O was in flight and a buffer was held
C7_Witness ==
    failed /\ ~NDEBUG /\ aio # {} /\ held # {}

\* C8: dirty-then-flush.  The completion of a write lowers the block's pin
\* count by one, to zero when nothing else refers to the block, issues no I/O
\* and leaves page map and dirty set alone; and for a block with no dirty
\* mark and no I/O in flight, the only step that puts I/O in flight is an
\* acquire of that block while it is not resident.
C8_DirtyThenFlush ==
    [][ /\ \A ctx \in aio, cur \in EventQueues :
             (aio_complete(ctx, cur) /\ ctx.written /\ ~failed') =>
                 /\ pins'[ctx.block_id] = pins[ctx.block_id] - 1
                 /\ ( /\ HeldFor(ctx.block_id) = {}
                      /\ DirtyFor(ctx.block_id) = {}
                      /\ {c \in aio : c.block_id = ctx.block_id} = {ctx} )
                        => pins'[ctx.block_id] = 0
                 /\ aio' = aio \ {ctx}
                 /\ dirty' = dirty
                 /\ page_map' = page_map
        /\ \A b \in Blocks :
             ( /\ DirtyFor(b) = {}
               /\ {c \in aio : c.block_id = b} = {}
               /\ {c \in aio' : c.block_id = b} # {} )
             => /\ page_map[b] = NULL
                /\ \E q \in EventQueues, s \in States : acquire(q, q, b, s)
      ]_vars

\* an allocated block has been written to disk and is resident, unpinned and clean
C8_Witness ==
    \E b \in Blocks \ (1..NumDisk) :
        /\ b \in disk
        /\ page_map[b] # NULL
        /\ pins[b] = 0
        /\ DirtyFor(b) = {}
        /\ WritesFor(b) = {}

\* C9: a block marked dirty whose write has not completed is pinned.
C9_DirtyStaysPinned ==
    \A b \in Blocks : (DirtyFor(b) # {} \/ WritesFor(b) # {}) => pins[b] > 0

\* a dirty block's write is in flight while another caller has acquired and
\* released the same block: the only pin left is the write's
C9_Witness ==
    \E b \in Blocks :
        /\ WritesFor(b) # {}
        /\ DirtyFor(b) = {}
        /\ HeldFor(b) = {}
        /\ pins[b] = 1

\* C10: eviction safety.  A block leaves the page map only when the cache
\* holds more than max_size blocks, and never while it is pinned, held by a
\* caller, or dirty with its write not yet completed.
C10_EvictionSafety ==
    [][ \A b \in Blocks :
            (page_map[b] # NULL /\ page_map'[b] = NULL) =>
                /\ Cardinality(Resident) > MaxSize
                /\ pins[b] = 0
                /\ HeldFor(b) = {}
                /\ DirtyFor(b) = {}
                /\ WritesFor(b) = {}
      ]_vars

\* a block was evicted while another block is pinned and held
C10_Witness ==
    /\ \E b \in Blocks \ (1..NumDisk) : b < next_block_id /\ page_map[b] = NULL
    /\ \E b \in Blocks : page_map[b] # NULL /\ pins[b] > 0 /\ HeldFor(b) # {}

\* C11: allocate guarantee.  allocate takes an id from the serializer that no
\* block had before; on return the returned buffer is the page map's entry
\* for that id, the id's pin count is exactly one, no other id maps to the
\* buffer, and no I/O was issued and no context created.
C11_AllocateGuarantee ==
    [][ \A s \in States :
            allocate(Home, Home, s) =>
                LET block_id == allocate_block_id
                    block == allocate_ret(block_id)
                IN /\ block_id \notin disk
                   /\ page_map[block_id] = NULL
                   /\ HeldFor(block_id) = {}
                   /\ {c \in aio : c.block_id = block_id} = {}
                   /\ next_block_id' > block_id
                   /\ block # NULL
                   /\ page_map'[block_id] = block
                   /\ pins'[block_id] = 1
                   /\ \A b \in Blocks \ {block_id} : page_map'[b] # block
                   /\ [state |-> s, block_id |-> block_id, block |-> block] \in held'
                   /\ aio' = aio
                   /\ live' = live
                   /\ dirty' = dirty
      ]_vars

\* a freshly allocated block is the only resident one: pinned once, held by
\* its caller, nothing in flight and nothing written
C11_Witness ==
    \E b \in Blocks \ (1..NumDisk) :
        /\ page_map[b] # NULL
        /\ pins[b] = 1
        /\ Cardinality(HeldFor(b)) = 1
        /\ \A c \in Blocks \ {b} : page_map[c] = NULL
        /\ aio = {}
        /\ dirty = {}
        /\ disk = 1..NumDisk

\* C12: allocate round-trip.  allocate leaves the new block resident with pin
\* count one and no read in flight for it; release(dirty=false) of a buffer
\* that is resident with pin count one leaves it resident with pin count zero
\* and returns the same id; a resident entry changes only when the block is
\* evicted or a read of it completes, and a read of a block is issued only
\* while the block is not resident; an acquire of a resident block returns the
\* resident buffer at once, with no read issued, no context created and no
\* buffer allocated.
C12_AllocateRoundTrip ==
    [][ /\ \A s \in States :
             allocate(Home, Home, s) =>
                 /\ page_map'[allocate_block_id] = allocate_ret(allocate_block_id)
                 /\ pins'[allocate_block_id] = 1
                 /\ ReadsFor(allocate_block_id) = {}
        /\ \A h \in held :
             ( /\ page_map[h.block_id] = h.block
               /\ pins[h.block_id] = 1
               /\ release(Home, Home, h, FALSE) )
             => /\ page_map'[h.block_id] = h.block
                /\ pins'[h.block_id] = 0
                /\ release_id(Home, h.block_id, h.block, FALSE, h.state) = h.block_id
        /\ \A b \in Blocks :
             /\ (page_map[b] # NULL /\ page_map'[b] = NULL) => evict(b)
             /\ (page_map[b] # NULL /\ page_map'[b] # page_map[b] /\ page_map'[b] # NULL)
                    => \E ctx \in ReadsFor(b) : aio' = aio \ {ctx}
             /\ (\E c \in aio' \ aio : ~c.written /\ c.block_id = b)
                    => page_map[b] = NULL
        /\ \A b \in Blocks, s \in States :
             (page_map[b] # NULL /\ acquire(Home, Home, b, s)) =>
                 /\ acquire_ret(b) = page_map[b]
                 /\ [state |-> s, block_id |-> b, block |-> page_map[b]] \in held'
                 /\ page_map' = page_map
                 /\ aio' = aio
                 /\ live' = live
                 /\ owner' = owner
      ]_vars

\* an allocated block that was never written is resident and unpinned, with
\* no holder and nothing in flight
C12_Witness ==
    \E b \in Blocks \ (1..NumDisk) :
        /\ page_map[b] # NULL
        /\ pins[b] = 0
        /\ b \notin disk
        /\ HeldFor(b) = {}
        /\ aio = {}
        /\ dirty = {}

\* C13: aio_context lifecycle.  In every reachable state the live contexts
\* are exactly the contexts of the reads and writes in flight, one each: a
\* context is created in the step that issues its I/O and deleted in the step
\* that delivers its completion, so none remains once all I/O has completed.
C13_ContextLifecycle ==
    /\ live = aio
    /\ aio = {} => live = {}

\* a read and a write are in flight, each with its context, after an earlier
\* write has completed and its context was deleted
C13_Witness ==
    /\ \E r \in live : ~r.written /\ r \in aio
    /\ \E w \in live : w.written /\ w \in aio
    /\ disk # 1..NumDisk

\* C14 (as claimed): in a debug build a second aio_complete for a context
\* that has already completed fails an assertion, and changes neither pin
\* counts nor page map a second time.
C14_DoubleCompletionDetected ==
    [][ \A ctx \in stale.kept, cur \in EventQueues :
            (~NDEBUG /\ aio_complete_again(ctx, cur)) =>
                /\ failed'
                /\ pins' = pins
                /\ page_map' = page_map
      ]_vars

\* C15 (as claimed): every byte of the buffer allocate returns is zero,
\* whatever the allocator's memory held before.
C15_AllocateZeroed ==
    [][ \A s \in States :
            allocate(Home, Home, s) =>
                allocate_contents(allocate_ret(allocate_block_id)) = 0
      ]_vars

\* C16: release with dirty=false lowers the pin count of its block id by
\* exactly one, returns the id it was given, does not call writeback, issues
\* no I/O and leaves the page map unchanged; release with dirty=true returns
\* the id mark_dirty produced, hands the block to writeback and leaves the pin
\* counts unchanged.
C16_ReleaseEffects ==
    [][ \A h \in held :
            /\ release(Home, Home, h, FALSE) =>
                   /\ pins'[h.block_id] = pins[h.block_id] - 1
                   /\ \A b \in Blocks \ {h.block_id} : pins'[b] = pins[b]
                   /\ release_id(Home, h.block_id, h.block, FALSE, h.state) = h.block_id
                   /\ dirty' = dirty
                   /\ aio' = aio
                   /\ live' = live
                   /\ page_map' = page_map
            /\ release(Home, Home, h, TRUE) =>
                   /\ release_id(Home, h.block_id, h.block, TRUE, h.state)
                          = mark_dirty_id(Home, h.block_id, h.block, h.state)
                   /\ dirty' = mark_dirty(Home, h.block_id, h.block, h.state)
                   /\ pins' = pins
                   /\ page_map' = page_map
      ]_vars

\* one block was released dirty and keeps its pin, another was released clean
\* and is resident with no pin
C16_Witness ==
    \E b \in Blocks, c \in Blocks :
        /\ DirtyFor(b) # {}
        /\ HeldFor(b) = {}
        /\ pins[b] = 1
        /\ c # b
        /\ page_map[c] # NULL
        /\ HeldFor(c) = {}
        /\ pins[c] = 0

\* C17: acquire of a block id that is resident raises that id's pin count by
\* exactly one and returns the page map's buffer at once; it allocates no
\* buffer, creates no context, issues no read and leaves the page map as it
\* was.
C17_AcquireHit ==
    [][ \A b \in Blocks, s \in States :
            (find(b) # NULL /\ acquire(Home, Home, b, s)) =>
                /\ pins'[b] = pins[b] + 1
                /\ \A c \in Blocks \ {b} : pins'[c] = pins[c]
                /\ acquire_ret(b) = page_map[b]
                /\ held' = held \cup {[state |-> s, block_id |-> b, block |-> page_map[b]]}
                /\ owner' = owner
                /\ live' = live
                /\ aio' = aio
                /\ page_map' = page_map
      ]_vars

\* an allocated block is held by its allocator and by a second caller whose
\* acquire hit: two pins, nothing in flight
C17_Witness ==
    \E b \in Blocks \ (1..NumDisk) :
        /\ page_map[b] # NULL
        /\ pins[b] = 2
        /\ Cardinality(HeldFor(b)) = 2
        /\ \A h \in HeldFor(b) : h.block = page_map[b]
        /\ aio = {}

\* the pins a block id owes: one per holder, per dirty mark and per write in
\* flight
Owed(b) ==
    Cardinality(HeldFor(b)) + Cardinality(DirtyFor(b)) + Cardinality(WritesFor(b))

\* C18: when every buffer obtained is released once and every I/O completes
\* once, no pin count is ever negative and unpin is never invoked on a pin
\* count of zero: every release that can be made and every write completion
\* that can arrive finds a positive count.
C18_NoNegativePins ==
    \A b \in Blocks :
        /\ pins[b] >= 0
        /\ pins[b] = Owed(b)
        /\ (HeldFor(b) # {} \/ WritesFor(b) # {}) => pins[b] > 0

\* a block whose write has completed is back at a pin count of zero while
\* another block is pinned twice
C18_Witness ==
    \E b \in Blocks \ (1..NumDisk) :
        /\ b \in disk
        /\ pins[b] = 0
        /\ Owed(b) = 0
        /\ \E c \in Blocks \ {b} : pins[c] = 2

\* C19 (as claimed): when release(dirty=true) returns an id different from
\* the one it was given, the pin stays under the original id until the
\* write's aio_complete(written=true) drops it, and the buffer is the page
\* map's entry for the returned id, so that a later acquire of the returned
\* id hits instead of reading the block from the serializer.
C19_ReassignedReachable ==
    [][ /\ \A h \in held :
             ( /\ release(Home, Home, h, TRUE)
               /\ release_id(Home, h.block_id, h.block, TRUE, h.state) # h.block_id )
             => /\ pins'[h.block_id] = pins[h.block_id]
                /\ page_map'[release_id(Home, h.block_id, h.block, TRUE, h.state)] = h.block
        /\ \A ctx \in aio, cur \in EventQueues :
             (aio_complete(ctx, cur) /\ ctx.written /\ ~failed') =>
                 pins'[ctx.block_id] = pins[ctx.block_id] - 1
      ]_vars

\* a step changes the pin count or the page map entry of block id c
Touched(c) == pins'[c] # pins[c] \/ page_map'[c] # page_map[c]

\* C20: acquire, release and aio_complete leave the pin count and the page
\* map entry of every block id other than the one they are about unchanged
\* (a step that changes them for c is no acquire or release of another id b
\* and no aio_complete of a context naming another id b), and
\* begin_transaction and end_transaction change no cache state at all.
C20_OtherBlocksUntouched ==
    [][ /\ \A c \in Blocks :
             Touched(c) =>
                 \A b \in Blocks \ {c} :
                     /\ \A s \in States : ~acquire(Home, Home, b, s)
                     /\ \A h \in HeldFor(b), d \in BOOLEAN : ~release(Home, Home, h, d)
                     /\ \A ctx \in aio, cur \in EventQueues :
                            ctx.block_id = b => ~aio_complete(ctx, cur)
        /\ <<cache, held>>' # <<cache, held>> =>
               /\ \A q \in EventQueues : ~begin_transaction(q)
               /\ \A tm \in EventQueues, cur \in EventQueues : ~end_transaction(tm, cur)
      ]_vars

\* a read of one block has completed while the write of another block is in
\* flight: both are resident with one pin each
C20_Witness ==
    \E b \in 1..NumDisk, c \in Blocks \ (1..NumDisk) :
        /\ page_map[b] # NULL
        /\ pins[b] = 1
        /\ HeldFor(b) # {}
        /\ page_map[c] # NULL
        /\ pins[c] = 1
        /\ WritesFor(c) # {}

====
